---- MODULE Spec2Model ----
(***************************************************************************)
(* Versioned projection of Grid schemas and property definitions into the  *)
(* relational store (daemon/src/database/helpers).                          *)
(*                                                                         *)
(* The store is two tables.  Every helper runs its SQL statements one by   *)
(* one on the connection it is handed; none of them opens a transaction,   *)
(* so one statement is the unit of atomicity.  A statement either executes *)
(* or returns Err (the QueryResult the `?` operator propagates).           *)
(*                                                                         *)
(* Spec     : one ingestion writer; an action is one whole helper call,    *)
(*            with every outcome the call can have (Ok, or Err at any of   *)
(*            its statements, the earlier statements staying applied).     *)
(* SpecConc : the same helpers statement by statement, two writers and a   *)
(*            reader interleaved.                                          *)
(* SpecWrites : the actions of Spec over the smaller store of the Helper*  *)
(*            bounds.                                                      *)
(* SpecHelpers : as SpecWrites, with every pub helper (the two close       *)
(*            helpers and the list helpers too) called on its own.         *)
(* SpecCli  : the paging loop of the CLI's do_list_organizations against a *)
(*            daemon that serves a fixed set of pages.                     *)
(***************************************************************************)
EXTENDS Integers, Sequences, FiniteSets, Bags, TLC

\* ------------------------------------------------------------------ bounds
MaxBlock == 2
MaxBatch == 2
MaxRows == 3
MaxPages == 2
\* SpecHelpers and SpecWrites run the helpers over a smaller store.
HelperMaxBlock == 1
HelperMaxBatch == 1
HelperMaxRows == 2

\* ------------------------------------------------------- program constants
\* The i64 sentinel of the open version (declared in helpers/mod.rs).  The
\* helpers only compare it for equality, so any value above every block
\* number behaves alike; this is the largest integer TLC represents.
MAX_BLOCK_NUM == 2147483647

\* --------------------------------------------------------------- inputs
Names == {"A", "B"}
ConcNames == {"A"}
DefNames == {"p", "q"}
Payloads == {1, 2}
Blocks == 1..MaxBlock
Writers == {1, 2}
None == [none |-> TRUE]
NoRead == [noread |-> TRUE]
NoCli == [nocli |-> TRUE]

\* Row types of the two insertable structs (name, start_block_num and the
\* remaining columns folded into payload).
NewGridSchema == [name : Names, start_block_num : Blocks, payload : Payloads]

\* Definition p exists in both schemas, definition q in schema A only.
NewGridPropertyDefinition ==
  {d \in [name : DefNames, schema_name : Names, start_block_num : Blocks] :
     d.schema_name = "A" \/ d.name = "p"}

SeqsUpTo(S, n) == UNION {[1..k -> S] : k \in 1..n}

VARIABLES
  grid_schema,               \* table grid_schema: bag of rows
  grid_property_definition,  \* table grid_property_definition: bag of rows
  regular,   \* every call so far returned Ok and carried, per key, blocks
             \* strictly later than the versions already stored
  fetched,   \* what the step just taken returned when it was a read:
             \* fetch_grid_schema: None or a GridSchema; a list_* helper:
             \* [rows |-> the Vec returned]; NoRead otherwise
  pc,        \* SpecConc, per writer: "idle", "schemas", "definitions"
  batch,     \* SpecConc, per writer: the slice of the call in progress
  idx,       \* SpecConc, per writer: next statement; <= Len: close, Len+1: insert
  pending,   \* SpecConc, per writer: definitions of the change-set still to write
  hadOpen,   \* SpecConc, per writer: the schema was open when its change-set began
  cli        \* SpecCli: the pages the daemon serves and the locals of
             \* do_list_organizations (final_url, orgs), what it printed and
             \* what it returned

storeVars == <<grid_schema, grid_property_definition>>
concVars == <<pc, batch, idx, pending, hadOpen>>
vars == <<grid_schema, grid_property_definition, regular, fetched,
          pc, batch, idx, pending, hadOpen, cli>>

\* ------------------------------------------------------------ SQL helpers
\* A table is the bag of its rows: SQL keeps no order among rows and the
\* helpers never read or write the surrogate id column.
RowsOf(s) ==
  LET rng == {s[i] : i \in DOMAIN s}
  IN [r \in rng |-> Cardinality({i \in DOMAIN s : s[i] = r})]

\* The rows of a table that satisfy a WHERE clause, as a bag.
SelectRows(t, P(_)) == [r \in {x \in DOMAIN t : P(x)} |-> t[r]]

\* update_grid_schema_end_block_num without the name filter: the UPDATE
\* closes the open version of every name.
update_grid_schema_end_block_num_AllNames(t, name, current_block_num) ==
  BagOfAll(LAMBDA r :
             IF r.end_block_num = MAX_BLOCK_NUM
               THEN [r EXCEPT !.end_block_num = current_block_num]
               ELSE r,
           t)

\* UPDATE grid_schema SET end_block_num = current_block_num
\*   WHERE name = name AND end_block_num = MAX_BLOCK_NUM
update_grid_schema_end_block_num(t, name, current_block_num) ==
  BagOfAll(LAMBDA r :
             IF r.name = name /\ r.end_block_num = MAX_BLOCK_NUM
               THEN [r EXCEPT !.end_block_num = current_block_num]
               ELSE r,
           t)

\* update_definition_end_block_num without the name filter: the UPDATE
\* closes every open definition.
update_definition_end_block_num_AllNames(t, name, current_block_num) ==
  BagOfAll(LAMBDA r :
             IF r.end_block_num = MAX_BLOCK_NUM
               THEN [r EXCEPT !.end_block_num = current_block_num]
               ELSE r,
           t)

\* UPDATE grid_property_definition SET end_block_num = current_block_num
\*   WHERE name = name AND end_block_num = MAX_BLOCK_NUM
update_definition_end_block_num(t, name, current_block_num) ==
  BagOfAll(LAMBDA r :
             IF r.name = name /\ r.end_block_num = MAX_BLOCK_NUM
               THEN [r EXCEPT !.end_block_num = current_block_num]
               ELSE r,
           t)

\* The INSERT as a replace: the stored versions of the slice's names are
\* deleted before the slice is inserted.
insert_into_grid_schema_Replace(t, schemas) ==
  SelectRows(t, LAMBDA r : \A i \in DOMAIN schemas : schemas[i].name # r.name)
    (+) RowsOf([i \in 1..Len(schemas) |->
          [name |-> schemas[i].name,
           start_block_num |-> schemas[i].start_block_num,
           end_block_num |-> MAX_BLOCK_NUM,
           payload |-> schemas[i].payload]])

\* INSERT INTO grid_schema VALUES (schemas): every row of the slice, open.
insert_into_grid_schema(t, schemas) ==
  t (+) RowsOf([i \in 1..Len(schemas) |->
          [name |-> schemas[i].name,
           start_block_num |-> schemas[i].start_block_num,
           end_block_num |-> MAX_BLOCK_NUM,
           payload |-> schemas[i].payload]])

\* INSERT INTO grid_property_definition VALUES (definitions)
insert_into_grid_property_definition(t, definitions) ==
  t (+) RowsOf([i \in 1..Len(definitions) |->
          [name |-> definitions[i].name,
           schema_name |-> definitions[i].schema_name,
           start_block_num |-> definitions[i].start_block_num,
           end_block_num |-> MAX_BLOCK_NUM]])

\* The table after the first k iterations of the loop of insert_grid_schemas.
RECURSIVE SchemaCloseLoop(_, _, _)
SchemaCloseLoop(t, schemas, k) ==
  IF k = 0 THEN t
  ELSE update_grid_schema_end_block_num(
         SchemaCloseLoop(t, schemas, k - 1),
         schemas[k].name, schemas[k].start_block_num)

\* The table after the first k iterations of the loop of
\* insert_grid_property_definitions.
RECURSIVE DefinitionCloseLoop(_, _, _)
DefinitionCloseLoop(t, definitions, k) ==
  IF k = 0 THEN t
  ELSE update_definition_end_block_num(
         DefinitionCloseLoop(t, definitions, k - 1),
         definitions[k].name, definitions[k].start_block_num)

\* The table insert_grid_schemas leaves when every statement executes.
InsertGridSchemasOk(t, schemas) ==
  insert_into_grid_schema(SchemaCloseLoop(t, schemas, Len(schemas)), schemas)

\* The table insert_grid_property_definitions leaves when every statement
\* executes.
InsertGridPropertyDefinitionsOk(t, definitions) ==
  insert_into_grid_property_definition(
    DefinitionCloseLoop(t, definitions, Len(definitions)), definitions)

\* The open rows of a schema name: WHERE name = name AND end_block_num =
\* MAX_BLOCK_NUM, as the bag of the rows selected.
OpenSchemaRows(t, name) ==
  [r \in {x \in DOMAIN t : x.name = name /\ x.end_block_num = MAX_BLOCK_NUM}
     |-> t[r]]

\* Number of open definitions of a schema: the rows of
\* grid_property_definition that the ON clause of the joins matches with a
\* grid_schema row of that name.
OpenDefinitionCount(gpd, schema_name) ==
  BagCardinality(SelectRows(gpd, LAMBDA d : /\ d.schema_name = schema_name
                                            /\ d.end_block_num = MAX_BLOCK_NUM))

\* grid_schema LEFT JOIN grid_property_definition ON (schema_name = name AND
\* the definition is open), SELECT grid_schema::all_columns: a schema row
\* comes once per matching definition, and once when none matches.
LeftJoinSchemaRows(gs, gpd) ==
  [s \in DOMAIN gs |->
     gs[s] * (IF OpenDefinitionCount(gpd, s.name) = 0
                THEN 1 ELSE OpenDefinitionCount(gpd, s.name))]

\* fetch_grid_schema with inner_join in place of left_join: a schema without
\* an open definition drops out of the result.
FetchGridSchemaQuery_InnerJoin(gs, gpd, name) ==
  SelectRows(gs, LAMBDA s : /\ s.name = name
                            /\ s.end_block_num = MAX_BLOCK_NUM
                            /\ OpenDefinitionCount(gpd, s.name) > 0)

\* The rows the query of fetch_grid_schema selects, before first().
FetchGridSchemaQuery(gs, gpd, name) ==
  SelectRows(LeftJoinSchemaRows(gs, gpd),
             LAMBDA s : s.name = name /\ s.end_block_num = MAX_BLOCK_NUM)

\* The rows the query of helpers::schemas::list_grid_schemas loads.
ListGridSchemasQuery(gs, gpd) ==
  SelectRows(LeftJoinSchemaRows(gs, gpd),
             LAMBDA s : s.end_block_num = MAX_BLOCK_NUM)

\* The rows the query of helpers::grid_schemas::list_grid_schemas loads.
GridSchemasListQuery(gs) ==
  SelectRows(gs, LAMBDA s : s.end_block_num = MAX_BLOCK_NUM)

\* The rows the query of list_grid_property_definitions loads.
ListGridPropertyDefinitionsQuery(gpd) ==
  SelectRows(gpd, LAMBDA d : d.end_block_num = MAX_BLOCK_NUM)

\* The Vecs load() can return for a result set: no ORDER BY, so the rows in
\* any order.
Orderings(rows) ==
  {s \in [1..BagCardinality(rows) -> DOMAIN rows] : RowsOf(s) = rows}

\* Handler<FetchGridSchema>::handle: None becomes NotFoundError, a schema
\* becomes the Ok response.
FetchGridSchemaResponse(result) ==
  IF result = None THEN "NotFoundError" ELSE "Ok"

\* ------------------------------------------------------- history helpers
\* The slice carries, per key, strictly increasing blocks that are all later
\* than every version of that key already stored.
SchemasInOrder(t, b) ==
  /\ \A i \in DOMAIN b : \A r \in DOMAIN t :
        r.name = b[i].name => r.start_block_num < b[i].start_block_num
  /\ \A i, j \in DOMAIN b :
        (i < j /\ b[i].name = b[j].name)
          => b[i].start_block_num < b[j].start_block_num

DefinitionsInOrder(t, b) ==
  /\ \A i \in DOMAIN b : \A r \in DOMAIN t :
        (r.name = b[i].name /\ r.schema_name = b[i].schema_name)
          => r.start_block_num < b[i].start_block_num
  /\ \A i, j \in DOMAIN b :
        (i < j /\ b[i].name = b[j].name /\ b[i].schema_name = b[j].schema_name)
          => b[i].start_block_num < b[j].start_block_num

\* ------------------------------------------------------------------ Init
Init ==
  /\ grid_schema = EmptyBag
  /\ grid_property_definition = EmptyBag
  /\ regular = TRUE
  /\ fetched = NoRead
  /\ pc = [w \in Writers |-> "idle"]
  /\ batch = [w \in Writers |-> <<>>]
  /\ idx = [w \in Writers |-> 1]
  /\ pending = [w \in Writers |-> <<>>]
  /\ hadOpen = [w \in Writers |-> FALSE]
  /\ cli = NoCli

\* The model's store holds at most MaxRows rows over both tables.
RoomFor(n) ==
  BagCardinality(grid_schema) + BagCardinality(grid_property_definition) + n
    <= MaxRows

\* ------------------------------------------------- actions of Spec (calls)
\* insert_grid_schemas(conn, schemas), every statement executing: Ok(()).
insert_grid_schemas(schemas) ==
  /\ RoomFor(Len(schemas))
  /\ grid_schema' = InsertGridSchemasOk(grid_schema, schemas)
  /\ regular' = (regular /\ SchemasInOrder(grid_schema, schemas))
  /\ fetched' = NoRead
  /\ UNCHANGED <<grid_property_definition, concVars, cli>>

\* insert_grid_schemas(conn, schemas) returning Err: statement k + 1 fails
\* (an UPDATE of the loop when k < Len, the INSERT when k = Len) after the
\* first k UPDATEs have executed.
insert_grid_schemas_err(schemas, k) ==
  /\ RoomFor(Len(schemas))
  /\ grid_schema' = SchemaCloseLoop(grid_schema, schemas, k)
  /\ regular' = FALSE
  /\ fetched' = NoRead
  /\ UNCHANGED <<grid_property_definition, concVars, cli>>

\* insert_grid_property_definitions(conn, definitions) returning Ok(()).
insert_grid_property_definitions(definitions) ==
  /\ RoomFor(Len(definitions))
  /\ grid_property_definition' =
       InsertGridPropertyDefinitionsOk(grid_property_definition, definitions)
  /\ regular' = (regular /\ DefinitionsInOrder(grid_property_definition, definitions))
  /\ fetched' = NoRead
  /\ UNCHANGED <<grid_schema, concVars, cli>>

\* insert_grid_property_definitions(conn, definitions) returning Err at
\* statement k + 1.
insert_grid_property_definitions_err(definitions, k) ==
  /\ RoomFor(Len(definitions))
  /\ grid_property_definition' =
       DefinitionCloseLoop(grid_property_definition, definitions, k)
  /\ regular' = FALSE
  /\ fetched' = NoRead
  /\ UNCHANGED <<grid_schema, concVars, cli>>

\* update_grid_schema_end_block_num(conn, name, current_block_num) called
\* on its own (it is pub): the UPDATE executes, whatever the number of rows
\* it matches, and execute's row count is mapped to Ok(()).
call_update_grid_schema_end_block_num(name, current_block_num) ==
  /\ grid_schema' =
       update_grid_schema_end_block_num(grid_schema, name, current_block_num)
  /\ regular' = FALSE
  /\ fetched' = [result |-> "Ok", key |-> name]
  /\ UNCHANGED <<grid_property_definition, concVars, cli>>

\* update_definition_end_block_num(conn, name, current_block_num) called on
\* its own.
call_update_definition_end_block_num(name, current_block_num) ==
  /\ grid_property_definition' = update_definition_end_block_num(
       grid_property_definition, name, current_block_num)
  /\ regular' = FALSE
  /\ fetched' = [result |-> "Ok", key |-> name]
  /\ UNCHANGED <<grid_schema, concVars, cli>>

\* Either close helper called on its own, its UPDATE returning Err.
call_update_end_block_num_err ==
  /\ regular' = FALSE
  /\ fetched' = [result |-> "Err"]
  /\ UNCHANGED <<grid_schema, grid_property_definition, concVars, cli>>

\* fetch_grid_schema(conn, name): the open rows of that name, left-joined
\* with the schema's open definitions; first() takes one row of the join (no
\* ORDER BY: any of them) and keeps its schema columns, or NotFound is mapped
\* to None.
fetch_grid_schema(name) ==
  /\ IF FetchGridSchemaQuery(grid_schema, grid_property_definition, name)
          = EmptyBag
       THEN fetched' = None
       ELSE \E r \in BagToSet(FetchGridSchemaQuery(
                       grid_schema, grid_property_definition, name)) :
              fetched' = r
  /\ UNCHANGED <<grid_schema, grid_property_definition, regular, concVars, cli>>

\* helpers::schemas::list_grid_schemas(conn), the one the REST handler
\* calls.
list_grid_schemas ==
  /\ \E s \in Orderings(ListGridSchemasQuery(grid_schema,
                                             grid_property_definition)) :
        fetched' = [rows |-> s]
  /\ UNCHANGED <<grid_schema, grid_property_definition, regular, concVars, cli>>

\* helpers::grid_schemas::list_grid_schemas(conn) deleting what it read.
grid_schemas_list_grid_schemas_Consuming ==
  /\ \E s \in Orderings(GridSchemasListQuery(grid_schema)) :
        fetched' = [rows |-> s]
  /\ grid_schema' =
       SelectRows(grid_schema, LAMBDA r : r.end_block_num # MAX_BLOCK_NUM)
  /\ UNCHANGED <<grid_property_definition, regular, concVars, cli>>

\* helpers::grid_schemas::list_grid_schemas(conn).
grid_schemas_list_grid_schemas ==
  /\ \E s \in Orderings(GridSchemasListQuery(grid_schema)) :
        fetched' = [rows |-> s]
  /\ UNCHANGED <<grid_schema, grid_property_definition, regular, concVars, cli>>

\* list_grid_property_definitions(conn).
list_grid_property_definitions ==
  /\ \E s \in Orderings(ListGridPropertyDefinitionsQuery(
                          grid_property_definition)) :
        fetched' = [rows |-> s]
  /\ UNCHANGED <<grid_schema, grid_property_definition, regular, concVars, cli>>

\* A read helper whose query returns Err (other than NotFound in
\* fetch_grid_schema): the error is handed to the caller.
read_err ==
  /\ fetched' = [result |-> "Err"]
  /\ UNCHANGED <<grid_schema, grid_property_definition, regular, concVars, cli>>

SchemaBatches == SeqsUpTo(NewGridSchema, MaxBatch)
DefinitionBatches == SeqsUpTo(NewGridPropertyDefinition, MaxBatch)

Next ==
  \/ \E b \in SchemaBatches : insert_grid_schemas(b)
  \/ \E b \in SchemaBatches : \E k \in 0..Len(b) : insert_grid_schemas_err(b, k)
  \/ \E b \in DefinitionBatches : insert_grid_property_definitions(b)
  \/ \E b \in DefinitionBatches : \E k \in 0..Len(b) :
        insert_grid_property_definitions_err(b, k)
  \/ \E n \in Names : fetch_grid_schema(n)

Spec == Init /\ [][Next]_vars

\* ------------------------------------------- SpecWrites and SpecHelpers
HelperBlocks == 1..HelperMaxBlock

HelperRoomFor(n) ==
  BagCardinality(grid_schema) + BagCardinality(grid_property_definition) + n
    <= HelperMaxRows

WriteSchemaBatches ==
  SeqsUpTo({s \in NewGridSchema : s.start_block_num \in HelperBlocks},
           HelperMaxBatch)

\* The schema slices of SpecHelpers carry one payload value.
HelperSchemaBatches ==
  SeqsUpTo({s \in NewGridSchema : /\ s.start_block_num \in HelperBlocks
                                  /\ s.payload = 1},
           HelperMaxBatch)

HelperDefinitionBatches ==
  SeqsUpTo({d \in NewGridPropertyDefinition :
              d.start_block_num \in HelperBlocks},
           HelperMaxBatch)

\* The four outcomes of the insert helpers, within HelperMaxRows rows.
helper_insert_grid_schemas(schemas) ==
  /\ HelperRoomFor(Len(schemas))
  /\ insert_grid_schemas(schemas)

helper_insert_grid_schemas_err(schemas, k) ==
  /\ HelperRoomFor(Len(schemas))
  /\ insert_grid_schemas_err(schemas, k)

helper_insert_grid_property_definitions(definitions) ==
  /\ HelperRoomFor(Len(definitions))
  /\ insert_grid_property_definitions(definitions)

helper_insert_grid_property_definitions_err(definitions, k) ==
  /\ HelperRoomFor(Len(definitions))
  /\ insert_grid_property_definitions_err(definitions, k)

NextWrites ==
  \/ \E b \in WriteSchemaBatches : helper_insert_grid_schemas(b)
  \/ \E b \in WriteSchemaBatches : \E k \in 0..Len(b) :
        helper_insert_grid_schemas_err(b, k)
  \/ \E b \in HelperDefinitionBatches :
        helper_insert_grid_property_definitions(b)
  \/ \E b \in HelperDefinitionBatches : \E k \in 0..Len(b) :
        helper_insert_grid_property_definitions_err(b, k)
  \/ \E n \in Names : fetch_grid_schema(n)

SpecWrites == Init /\ [][NextWrites]_vars

NextHelpers ==
  \/ \E b \in HelperSchemaBatches : helper_insert_grid_schemas(b)
  \/ \E b \in HelperSchemaBatches : \E k \in 0..Len(b) :
        helper_insert_grid_schemas_err(b, k)
  \/ \E b \in HelperDefinitionBatches :
        helper_insert_grid_property_definitions(b)
  \/ \E b \in HelperDefinitionBatches : \E k \in 0..Len(b) :
        helper_insert_grid_property_definitions_err(b, k)
  \/ \E n \in Names : \E c \in HelperBlocks :
        call_update_grid_schema_end_block_num(n, c)
  \/ \E n \in DefNames : \E c \in HelperBlocks :
        call_update_definition_end_block_num(n, c)
  \/ call_update_end_block_num_err
  \/ \E n \in Names : fetch_grid_schema(n)
  \/ list_grid_schemas
  \/ grid_schemas_list_grid_schemas
  \/ list_grid_property_definitions
  \/ read_err

SpecHelpers == Init /\ [][NextHelpers]_vars

\* ------------------------------------- actions of SpecConc (statements)
\* Entry of insert_grid_schemas(conn, schemas) on a writer's connection;
\* `definitions` is what the writer will hand to
\* insert_grid_property_definitions once this call has returned Ok (empty:
\* nothing).
CallInsertGridSchemas(w, schemas, definitions) ==
  /\ pc[w] = "idle"
  /\ RoomFor(Len(schemas) + Len(definitions))
  /\ pc' = [pc EXCEPT ![w] = "schemas"]
  /\ batch' = [batch EXCEPT ![w] = schemas]
  /\ idx' = [idx EXCEPT ![w] = 1]
  /\ pending' = [pending EXCEPT ![w] = definitions]
  /\ hadOpen' = [hadOpen EXCEPT
       ![w] = OpenSchemaRows(grid_schema, schemas[1].name) # EmptyBag]
  /\ fetched' = NoRead
  /\ UNCHANGED <<grid_schema, grid_property_definition, regular, cli>>

\* A writer calls insert_grid_schemas alone.
InsertGridSchemasAlone(w, schemas) == CallInsertGridSchemas(w, schemas, <<>>)

\* A writer takes up one change-set, a schema with its property definitions
\* at the same block: insert_grid_schemas, then
\* insert_grid_property_definitions.
BeginChangeSet(w, schemas, definitions) ==
  /\ definitions # <<>>
  /\ CallInsertGridSchemas(w, schemas, definitions)

\* One iteration of the loop of insert_grid_schemas: the UPDATE executes.
SchemaCloseStep(w) ==
  /\ pc[w] = "schemas" /\ idx[w] <= Len(batch[w])
  /\ grid_schema' = update_grid_schema_end_block_num(
        grid_schema, batch[w][idx[w]].name, batch[w][idx[w]].start_block_num)
  /\ idx' = [idx EXCEPT ![w] = @ + 1]
  /\ fetched' = NoRead
  /\ UNCHANGED <<grid_property_definition, regular, cli, pc, batch, pending, hadOpen>>

\* The INSERT that ends insert_grid_schemas executes and the call returns
\* Ok; the writer goes on to the definitions of the change-set, if any.
SchemaInsertStep(w) ==
  /\ pc[w] = "schemas" /\ idx[w] = Len(batch[w]) + 1
  /\ grid_schema' = insert_into_grid_schema(grid_schema, batch[w])
  /\ pc' = [pc EXCEPT ![w] = IF pending[w] = <<>> THEN "idle" ELSE "definitions"]
  /\ batch' = [batch EXCEPT ![w] = pending[w]]
  /\ idx' = [idx EXCEPT ![w] = 1]
  /\ pending' = [pending EXCEPT ![w] = <<>>]
  /\ hadOpen' = [hadOpen EXCEPT ![w] = FALSE]
  /\ fetched' = NoRead
  /\ UNCHANGED <<grid_property_definition, regular, cli>>

\* One iteration of the loop of insert_grid_property_definitions.
DefinitionCloseStep(w) ==
  /\ pc[w] = "definitions" /\ idx[w] <= Len(batch[w])
  /\ grid_property_definition' = update_definition_end_block_num(
        grid_property_definition,
        batch[w][idx[w]].name, batch[w][idx[w]].start_block_num)
  /\ idx' = [idx EXCEPT ![w] = @ + 1]
  /\ fetched' = NoRead
  /\ UNCHANGED <<grid_schema, regular, cli, pc, batch, pending, hadOpen>>

\* The INSERT that ends insert_grid_property_definitions executes.
DefinitionInsertStep(w) ==
  /\ pc[w] = "definitions" /\ idx[w] = Len(batch[w]) + 1
  /\ grid_property_definition' =
        insert_into_grid_property_definition(grid_property_definition, batch[w])
  /\ pc' = [pc EXCEPT ![w] = "idle"]
  /\ batch' = [batch EXCEPT ![w] = <<>>]
  /\ idx' = [idx EXCEPT ![w] = 1]
  /\ fetched' = NoRead
  /\ UNCHANGED <<grid_schema, regular, cli, pending, hadOpen>>

\* The statement the writer is about to run returns Err: `?` (or the final
\* map) hands the error to the caller, which gives the change-set up; the
\* statements already run stay applied.
StatementError(w) ==
  /\ pc[w] # "idle"
  /\ pc' = [pc EXCEPT ![w] = "idle"]
  /\ batch' = [batch EXCEPT ![w] = <<>>]
  /\ idx' = [idx EXCEPT ![w] = 1]
  /\ pending' = [pending EXCEPT ![w] = <<>>]
  /\ hadOpen' = [hadOpen EXCEPT ![w] = FALSE]
  /\ fetched' = NoRead
  /\ UNCHANGED <<grid_schema, grid_property_definition, regular, cli>>

\* The change-sets of SpecConc: one schema of ConcNames and either no
\* definition or one definition of that schema at the schema's block.
ConcChangeSets ==
  {cs \in [schemas : [1..1 -> {s \in NewGridSchema :
                                 s.name \in ConcNames /\ s.payload = 1}],
           definitions : {<<>>} \cup [1..1 -> NewGridPropertyDefinition]] :
     \A i \in DOMAIN cs.definitions :
        /\ cs.definitions[i].name = "p"
        /\ cs.definitions[i].schema_name = cs.schemas[1].name
        /\ cs.definitions[i].start_block_num = cs.schemas[1].start_block_num}

WriterStep(w) ==
  \/ \E cs \in ConcChangeSets : InsertGridSchemasAlone(w, cs.schemas)
  \/ \E cs \in ConcChangeSets : BeginChangeSet(w, cs.schemas, cs.definitions)
  \/ SchemaCloseStep(w)
  \/ SchemaInsertStep(w)
  \/ DefinitionCloseStep(w)
  \/ DefinitionInsertStep(w)
  \/ StatementError(w)

NextConc ==
  \/ \E w \in Writers : WriterStep(w)
  \/ \E n \in ConcNames : fetch_grid_schema(n)

SpecConc == Init /\ [][NextConc]_vars

\* ------------------------------------------ actions of SpecCli (the loop)
\* The daemon serves pages 1..MaxPages of GET /organization; page 1 is the
\* first URL.  A page is the response to its URL: a status, and for a
\* success the body's data (organization ids) and paging.next (0: null).
Pages == 1..MaxPages
MaxRequests == MaxPages + 1
NoNext == 0

OrgPages ==
  [Pages -> {pg \in [status : {"success", "failure"}, data : {0, 1},
                     next : Pages \cup {NoNext}] : TRUE}]

\* The data of a page: its own id when the page carries a row.
PageData(pages, p) == IF pages[p].data = 1 THEN <<p>> ELSE <<>>

\* Entry of do_list_organizations: final_url is the first URL, orgs is
\* Vec::new().
InitCli ==
  /\ grid_schema = EmptyBag
  /\ grid_property_definition = EmptyBag
  /\ regular = TRUE
  /\ fetched = NoRead
  /\ pc = [w \in Writers |-> "idle"]
  /\ batch = [w \in Writers |-> <<>>]
  /\ idx = [w \in Writers |-> 1]
  /\ pending = [w \in Writers |-> <<>>]
  /\ hadOpen = [w \in Writers |-> FALSE]
  /\ cli \in {[pages |-> ps, final_url |-> 1, orgs |-> <<>>,
               printed |-> <<>>, result |-> "running", requests |-> 0] :
                ps \in OrgPages}

CliFrame ==
  UNCHANGED <<grid_schema, grid_property_definition, regular, fetched,
              concVars>>

\* One iteration of the loop: the response is a success and carries
\* paging.next; its data is appended and final_url becomes the next link.
loop_next_page ==
  /\ cli.result = "running"
  /\ cli.requests < MaxRequests
  /\ cli.pages[cli.final_url].status = "success"
  /\ cli.pages[cli.final_url].next # NoNext
  /\ cli' = [cli EXCEPT !.orgs = @ \o PageData(cli.pages, cli.final_url),
                        !.final_url = cli.pages[cli.final_url].next,
                        !.requests = @ + 1]
  /\ CliFrame

\* The last iteration: the response is a success without paging.next; its
\* data is appended, the loop breaks, list_organizations prints orgs and the
\* function returns Ok(()).
loop_break_and_print ==
  /\ cli.result = "running"
  /\ cli.requests < MaxRequests
  /\ cli.pages[cli.final_url].status = "success"
  /\ cli.pages[cli.final_url].next = NoNext
  /\ cli' = [cli EXCEPT !.orgs = @ \o PageData(cli.pages, cli.final_url),
                        !.printed = cli.orgs \o PageData(cli.pages, cli.final_url),
                        !.result = "Ok",
                        !.requests = @ + 1]
  /\ CliFrame

\* The non-success branch printing the rows gathered so far before it
\* returns.
loop_daemon_error_PrintsPartial ==
  /\ cli.result = "running"
  /\ cli.requests < MaxRequests
  /\ cli.pages[cli.final_url].status = "failure"
  /\ cli' = [cli EXCEPT !.result = "DaemonError", !.printed = cli.orgs,
                        !.requests = @ + 1]
  /\ CliFrame

\* An iteration whose response has a non-success status: return
\* Err(CliError::DaemonError(response.text()?)).
loop_daemon_error ==
  /\ cli.result = "running"
  /\ cli.requests < MaxRequests
  /\ cli.pages[cli.final_url].status = "failure"
  /\ cli' = [cli EXCEPT !.result = "DaemonError", !.requests = @ + 1]
  /\ CliFrame

\* An iteration whose send(), text() or json() returns Err: `?` returns the
\* converted error.
loop_request_error ==
  /\ cli.result = "running"
  /\ cli.requests < MaxRequests
  /\ cli' = [cli EXCEPT !.result = "RequestError", !.requests = @ + 1]
  /\ CliFrame

NextCli ==
  \/ loop_next_page
  \/ loop_break_and_print
  \/ loop_daemon_error
  \/ loop_request_error

\* The loop is sequential code: it keeps taking its next step.
SpecCli == InitCli /\ [][NextCli]_vars /\ WF_vars(NextCli)

\* ================================================================ claims
\* Number of open rows of a schema name / of a definition key.
OpenSchemaCount(t, name) == BagCardinality(OpenSchemaRows(t, name))

OpenDefinitionRows(t, schema_name, name) ==
  [r \in {x \in DOMAIN t : /\ x.schema_name = schema_name
                           /\ x.name = name
                           /\ x.end_block_num = MAX_BLOCK_NUM} |-> t[r]]

\* Number of rows of `rows` (one key's versions) whose [start, end) holds h.
Covering(rows, h) ==
  BagCardinality([r \in {x \in DOMAIN rows : /\ x.start_block_num <= h
                                             /\ h < x.end_block_num}
                    |-> rows[r]])

\* I2 for the versions of one key: from the first start on, every block is
\* in the interval of exactly one version, and every closed version ends
\* where another version of the key starts.
Contiguous(rows) ==
  \/ rows = EmptyBag
  \/ LET first == CHOOSE b \in {r.start_block_num : r \in DOMAIN rows} :
                     \A r \in DOMAIN rows : b <= r.start_block_num
     IN /\ \A h \in first..(MaxBlock + 1) : Covering(rows, h) = 1
        /\ \A r \in DOMAIN rows :
              r.end_block_num # MAX_BLOCK_NUM
                => \E q \in DOMAIN rows : q.start_block_num = r.end_block_num

SchemaVersions(t, name) == [r \in {x \in DOMAIN t : x.name = name} |-> t[r]]

DefinitionVersions(t, schema_name, name) ==
  [r \in {x \in DOMAIN t : x.schema_name = schema_name /\ x.name = name}
     |-> t[r]]

\* C1: when every change-set so far was applied in block order and returned
\* Ok, every schema name that has a record has exactly one open record, also
\* after a call whose slice carries two entries for one name.
C1_ExactlyOneOpen ==
  regular =>
    \A n \in Names :
       SchemaVersions(grid_schema, n) # EmptyBag
         => OpenSchemaCount(grid_schema, n) = 1

\* C2: after any sequence of insert_grid_schemas and
\* insert_grid_property_definitions calls the intervals of every key's
\* versions are non-overlapping and contiguous from the first start on.
C2_IntervalsContiguous ==
  /\ \A n \in Names : Contiguous(SchemaVersions(grid_schema, n))
  /\ \A n \in Names : \A d \in DefNames :
        Contiguous(DefinitionVersions(grid_property_definition, n, d))

\* C3: every closed record has start_block_num < end_block_num (a close at a
\* block not later than the open record's start is rejected, not stored).
C3_ClosedRangeValid ==
  /\ \A r \in DOMAIN grid_schema :
        r.end_block_num # MAX_BLOCK_NUM => r.start_block_num < r.end_block_num
  /\ \A r \in DOMAIN grid_property_definition :
        r.end_block_num # MAX_BLOCK_NUM => r.start_block_num < r.end_block_num

\* C4: idempotence: once insert_grid_schemas has applied a slice, applying
\* the same slice again leaves the table as the first application left it.
C4_Idempotent ==
  [][\A b \in SchemaBatches :
       insert_grid_schemas(b)
         => InsertGridSchemasOk(grid_schema', b) = grid_schema']_vars

\* Every entry of the slice is stale: its key has an open record whose
\* start_block_num is not less than the entry's block.
StaleSchemas(t, b) ==
  \A i \in DOMAIN b :
     \E r \in DOMAIN OpenSchemaRows(t, b[i].name) :
        b[i].start_block_num <= r.start_block_num

StaleDefinitions(t, b) ==
  \A i \in DOMAIN b :
     \E r \in DOMAIN OpenDefinitionRows(t, b[i].schema_name, b[i].name) :
        b[i].start_block_num <= r.start_block_num

\* C5: a change-set whose block is not greater than the start of the key's
\* open record is discarded: the call returns Ok and the store is unchanged.
C5_StaleDiscarded ==
  [][/\ \A b \in SchemaBatches :
          (insert_grid_schemas(b) /\ StaleSchemas(grid_schema, b))
            => grid_schema' = grid_schema
     /\ \A b \in DefinitionBatches :
          (/\ insert_grid_property_definitions(b)
           /\ StaleDefinitions(grid_property_definition, b))
            => grid_property_definition' = grid_property_definition]_vars

\* C6: a fetch_grid_schema that runs while a writer is inside
\* insert_grid_schemas for a name that had an open record when the call
\* began never finds that name without an open record.
C6_ReaderSeesOpen ==
  [][\A n \in ConcNames : \A w \in Writers :
       (/\ fetch_grid_schema(n)
        /\ pc[w] = "schemas" /\ hadOpen[w]
        /\ batch[w][1].name = n)
         => fetched' # None]_vars

\* C7: when insert_grid_schemas or insert_grid_property_definitions returns
\* Err, both tables are exactly as they were before the call.
C7_ErrorLeavesStore ==
  [][/\ \A b \in SchemaBatches : \A k \in 0..Len(b) :
          insert_grid_schemas_err(b, k) => UNCHANGED storeVars
     /\ \A b \in DefinitionBatches : \A k \in 0..Len(b) :
          insert_grid_property_definitions_err(b, k)
            => UNCHANGED storeVars]_vars

\* C8: while a writer is between the schema transition and the definition
\* transition of one change-set, the store never shows the schema's new
\* version open together with an older open version of one of the
\* change-set's definitions.
C8_ParentChildAtomic ==
  \A w \in Writers :
     pc[w] = "definitions" =>
       \A i \in DOMAIN batch[w] :
          ~ /\ \E s \in DOMAIN OpenSchemaRows(grid_schema, batch[w][i].schema_name) :
                  s.start_block_num = batch[w][i].start_block_num
            /\ \E d \in DOMAIN OpenDefinitionRows(grid_property_definition,
                                 batch[w][i].schema_name, batch[w][i].name) :
                  d.start_block_num < batch[w][i].start_block_num

\* C9: two writers running insert_grid_schemas for one name, however their
\* statements interleave, never leave two open records for that name.
C9_NoDoubleOpen ==
  \A n \in ConcNames : OpenSchemaCount(grid_schema, n) <= 1

\* C10: insert_grid_property_definitions leaves every open definition of a
\* schema that no entry of the slice belongs to unchanged.
C10_ScopedUnderSchema ==
  [][\A b \in DefinitionBatches :
       insert_grid_property_definitions(b)
         => \A r \in DOMAIN grid_property_definition :
               (/\ r.end_block_num = MAX_BLOCK_NUM
                /\ \A i \in DOMAIN b : b[i].schema_name # r.schema_name)
                 => CopiesIn(r, grid_property_definition')
                      = CopiesIn(r, grid_property_definition)]_vars

\* C11: deletion-by-omission: when insert_grid_property_definitions writes
\* the definitions of one schema at one block B, later than every stored
\* version of that schema's definitions, the open definitions of the schema
\* are afterwards those of the slice: every definition of the schema that
\* was open and is not in the slice is closed.
C11_DeletionByOmission ==
  [][\A b \in DefinitionBatches :
       (/\ insert_grid_property_definitions(b)
        /\ \A i \in DOMAIN b : /\ b[i].schema_name = b[1].schema_name
                               /\ b[i].start_block_num = b[1].start_block_num
        /\ \A d \in DOMAIN grid_property_definition :
              d.schema_name = b[1].schema_name
                => d.start_block_num < b[1].start_block_num)
         => \A d \in DOMAIN grid_property_definition' :
               (/\ d.schema_name = b[1].schema_name
                /\ d.end_block_num = MAX_BLOCK_NUM)
                 => \E i \in DOMAIN b : b[i].name = d.name]_vars

\* C12: fetch_grid_schema(name) returns a stored record of that name whose
\* end_block_num is MAX_BLOCK_NUM, never a closed one, and returns None
\* (NotFoundError in the REST handler) exactly when no record of that name
\* is open.
C12_FetchReturnsOpen ==
  [][\A n \in Names :
       fetch_grid_schema(n)
         => LET open == {r \in DOMAIN grid_schema :
                           r.name = n /\ r.end_block_num = MAX_BLOCK_NUM}
            IN /\ (fetched' = None) <=> (open = {})
               /\ (fetched' # None) => (fetched' \in open)
               /\ (FetchGridSchemaResponse(fetched') = "NotFoundError")
                    <=> (open = {})]_vars

\* C12 witness: a fetch has just returned the open record of a name that
\* also has a closed version and no open definition.
C12_Witness ==
  /\ "name" \in DOMAIN fetched
  /\ fetched.end_block_num = MAX_BLOCK_NUM
  /\ \E r \in DOMAIN grid_schema :
        r.name = fetched.name /\ r.end_block_num # MAX_BLOCK_NUM
  /\ OpenDefinitionCount(grid_property_definition, fetched.name) = 0

\* C15 as claimed: a close helper called for a name that has no open record
\* reports an error.
C15_CloseWithoutOpenFails ==
  [][/\ \A n \in Names : \A c \in HelperBlocks :
          (/\ call_update_grid_schema_end_block_num(n, c)
           /\ OpenSchemaRows(grid_schema, n) = EmptyBag)
            => fetched'.result = "Err"
     /\ \A n \in DefNames : \A c \in HelperBlocks :
          (/\ call_update_definition_end_block_num(n, c)
           /\ \A d \in DOMAIN grid_property_definition :
                 d.name = n => d.end_block_num # MAX_BLOCK_NUM)
            => fetched'.result = "Err"]_vars

\* C15 amended: a close helper called for a name that has no open record
\* leaves both tables unchanged and returns Ok(()).
C15_CloseWithoutOpenIsNoOp ==
  [][("key" \in DOMAIN fetched')
       => /\ \A n \in Names : \A c \in HelperBlocks :
               (/\ \A r \in DOMAIN grid_schema :
                      r.name = n => r.end_block_num # MAX_BLOCK_NUM
                /\ call_update_grid_schema_end_block_num(n, c))
                 => (UNCHANGED storeVars /\ fetched'.result = "Ok")
          /\ \A n \in DefNames : \A c \in HelperBlocks :
               (/\ \A d \in DOMAIN grid_property_definition :
                      d.name = n => d.end_block_num # MAX_BLOCK_NUM
                /\ call_update_definition_end_block_num(n, c))
                 => (UNCHANGED storeVars /\ fetched'.result = "Ok")]_vars

\* C15 witness: a close helper has just returned Ok for a name of which
\* the store, though not empty, holds no record at all.
C15_Witness ==
  /\ "key" \in DOMAIN fetched
  /\ fetched.result = "Ok"
  /\ fetched.key \in DefNames
  /\ grid_property_definition # EmptyBag
  /\ \A d \in DOMAIN grid_property_definition : d.name # fetched.key

\* C13: when every change-set so far was applied in block order and returned
\* Ok, every block height h lies in the interval of at most one record of a
\* schema name, and that record is the version with the latest
\* start_block_num <= h of the name (none only when no version starts at or
\* before h).
C13_AsOfLatestVersion ==
  regular =>
    \A n \in Names : \A h \in 1..(MaxBlock + 1) :
       LET versions == SchemaVersions(grid_schema, n)
           covering == {r \in DOMAIN versions :
                          r.start_block_num <= h /\ h < r.end_block_num}
       IN /\ Covering(versions, h) <= 1
          /\ \A r \in covering : \A q \in DOMAIN versions :
                q.start_block_num <= h
                  => q.start_block_num <= r.start_block_num
          /\ (\E q \in DOMAIN versions : q.start_block_num <= h)
               => covering # {}

\* Ascending key order of schema names.
NameRank(n) == IF n = "A" THEN 1 ELSE 2

\* C14: either list_grid_schemas returns, when no name has two open records,
\* every schema name that has an open record exactly once, open records
\* only, in ascending order of the name.
C14_ListEachOpenOnce ==
  [][(/\ list_grid_schemas \/ grid_schemas_list_grid_schemas
      /\ \A n \in Names : OpenSchemaCount(grid_schema, n) <= 1)
       => LET rows == fetched'.rows
          IN /\ \A n \in Names :
                   Cardinality({i \in DOMAIN rows : rows[i].name = n})
                     = OpenSchemaCount(grid_schema, n)
             /\ \A i \in DOMAIN rows :
                   rows[i].end_block_num = MAX_BLOCK_NUM
             /\ \A i, j \in DOMAIN rows :
                   i < j => NameRank(rows[i].name) < NameRank(rows[j].name)]_vars

\* The versions of a table: its rows without end_block_num.
SchemaVersionKeys(t) ==
  BagOfAll(LAMBDA r : [name |-> r.name,
                       start_block_num |-> r.start_block_num,
                       payload |-> r.payload], t)

DefinitionVersionKeys(t) ==
  BagOfAll(LAMBDA r : [name |-> r.name,
                       schema_name |-> r.schema_name,
                       start_block_num |-> r.start_block_num], t)

\* C16: no call deletes a record or overwrites a version's name,
\* start_block_num or payload: the versions stored before a step are all
\* stored after it, as many times.
C16_VersionsOnlyGrow ==
  [][/\ SchemaVersionKeys(grid_schema) \sqsubseteq SchemaVersionKeys(grid_schema')
     /\ DefinitionVersionKeys(grid_property_definition)
          \sqsubseteq DefinitionVersionKeys(grid_property_definition')]_vars

\* C16 witness: a closed version of a name is stored next to the later
\* open version, of another payload, that superseded it.
C16_Witness ==
  \E r, q \in DOMAIN grid_schema :
     /\ r.name = q.name
     /\ r.end_block_num = q.start_block_num
     /\ q.end_block_num = MAX_BLOCK_NUM
     /\ r.payload # q.payload

\* C17: fetch_grid_schema, both list_grid_schemas and
\* list_grid_property_definitions leave both tables as they were, whether
\* they return rows, nothing or an error.
C17_ReadsDoNotMutate ==
  [][\/ UNCHANGED storeVars
     \/ ~(\/ \E n \in Names : fetch_grid_schema(n)
          \/ list_grid_schemas
          \/ grid_schemas_list_grid_schemas
          \/ list_grid_property_definitions
          \/ read_err)]_vars

\* C17 witness: a list helper has just returned a row from a store that
\* also holds a closed schema version.
C17_Witness ==
  /\ "rows" \in DOMAIN fetched
  /\ Len(fetched.rows) > 0
  /\ \E r \in DOMAIN grid_schema : r.end_block_num # MAX_BLOCK_NUM

RECURSIVE Walk(_, _, _)
Walk(pages, p, n) ==
  IF n = 0 \/ p = NoNext THEN <<>>
  ELSE PageData(pages, p) \o Walk(pages, pages[p].next, n - 1)

\* The chain of next links from page p ends (at a page without next link or
\* at a non-success response) within `fuel` pages.
RECURSIVE ChainEnds(_, _, _)
ChainEnds(pages, p, fuel) ==
  IF fuel = 0 THEN FALSE
  ELSE \/ pages[p].status = "failure"
       \/ pages[p].next = NoNext
       \/ ChainEnds(pages, pages[p].next, fuel - 1)

\* C20: do_list_organizations prints nothing before it returns; when it
\* returns Ok the last response carried no next link and it has printed the
\* data of all pages requested, in request order; when a response has a
\* non-success status it returns DaemonError having printed nothing; and it
\* returns whenever the chain of next links is finite.
C20_FollowsNextLinks ==
  /\ [](cli.result = "Ok"
          => /\ cli.pages[cli.final_url].next = NoNext
             /\ cli.printed = Walk(cli.pages, 1, cli.requests))
  /\ [](cli.result = "DaemonError"
          => /\ cli.pages[cli.final_url].status = "failure"
             /\ cli.printed = <<>>)
  /\ [](cli.result \in {"running", "RequestError"} => cli.printed = <<>>)
  /\ [](ChainEnds(cli.pages, 1, MaxPages) => <>(cli.result # "running"))

\* C20 witness: the loop has returned Ok after two requests and printed the
\* rows of both pages.
C20_Witness ==
  /\ cli # NoCli
  /\ cli.result = "Ok"
  /\ cli.requests = 2
  /\ Len(cli.printed) = 2

====
